---- MODULE Spec2Model ----
(***************************************************************************)
(* Model of the LofiMusicAI server: the in-memory track store              *)
(* (src/server/storage.ts, MemStorage), the routes and processTrack        *)
(* (same file, second half), and the three processAudio implementations    *)
(* found in the repository: the byte-level one the server imports          *)
(* (src/server/audioProcessor.ts, "mask"), and the copy-only and FFmpeg    *)
(* ones (src/unnamed/part_009, "copy" and "ffmpeg").                       *)
(*                                                                         *)
(* Real numbers are fixed-point integers in units of 1/Scale, so that      *)
(* raw/100, raw/300 and every threshold of the code is an exact integer.   *)
(* Node runs one handler or continuation at a time: an action is what runs *)
(* between two completions of real I/O (an fs call, a child process, a     *)
(* timer). A route runs up to processTrack's call of processAudio; the     *)
(* call, each awaited I/O of processAudio and processTrack's end are       *)
(* actions of their own.                                                   *)
(*                                                                         *)
(* The specifications share the variables: Spec is the server, SpecLive    *)
(* the server with its transformations running on, SpecPA one call of      *)
(* processAudio on any input, SpecMeta one call of getAudioMetadata on any *)
(* path, SpecAudio the audio registry of the client                        *)
(* (src/client/src/lib/audio.ts, and its other version                     *)
(* src/unnamed/part_000).                                                  *)
(***************************************************************************)
EXTENDS Integers, Sequences, FiniteSets, TLC

VARIABLES
  impl,            \* which processAudio module the deployment loads
  files,           \* the disk: path -> [size, readable]
  tracks,          \* MemStorage.tracks: id -> Track
  currentTrackId,  \* MemStorage.currentTrackId
  nanoCount,       \* number of nanoid() values drawn so far (each is new)
  tasks,           \* processAudio invocations, with their processTrack caller
  deletes,         \* DELETE requests between their two fs.unlink awaits
  probes,          \* getAudioMetadata calls made on their own
  reply,           \* the status code of the last POST /api/tracks/effects answer
  audioLib,        \* which audio registry module the page loads
  audioInstances,  \* the registry: id -> [howl, src, srcIsArray, playing]
  howlCount,       \* number of Howl objects created so far
  unloaded,        \* the Howl objects unload() has been called on
  audioReturn      \* the last registry call and what it returned

clientVars == <<audioLib, audioInstances, howlCount, unloaded, audioReturn>>
serverVars ==
  <<impl, files, tracks, currentTrackId, nanoCount, tasks, deletes, probes, reply>>
vars ==
  <<impl, files, tracks, currentTrackId, nanoCount, tasks, deletes, probes, reply,
    audioLib, audioInstances, howlCount, unloaded, audioReturn>>

\* ------------------------------------------------------------- bounds
MaxTracks == 2
MaxTasks == 2
RawSkew == 20

\* ---------------------------------------------------------- constants
Scale == 300

Impls == {"mask", "copy", "ffmpeg"}

EffectNames ==
  {"vinylCrackle", "reverb", "beatSlowdown", "bassBoost", "bitCrushing",
   "backgroundNoise"}

DefaultEffects ==
  [vinylCrackle |-> 65, reverb |-> 40, beatSlowdown |-> 25, bassBoost |-> 50,
   bitCrushing |-> 20, backgroundNoise |-> 35]

Uniform(v) == [n \in EffectNames |-> v]

\* no POST /api/tracks/effects answered yet
\* reply: the status code of the last answer of POST /api/tracks/effects
NoReply == 0

\* the two versions of the client's audio registry module
AudioLibs == {"audio.ts", "part_000"}
\* nothing has been returned by the registry yet
NoReturn == [op |-> "", id |-> "", src |-> "", howl |-> 0, playing |-> FALSE]
\* no page is open: an empty registry
NoClient ==
  /\ audioLib = "audio.ts"
  /\ audioInstances = <<>>
  /\ howlCount = 0
  /\ unloaded = {}
  /\ audioReturn = NoReturn

\* effectsSchema: every field is a number in [0, 100]
SliderMin == 0
SliderMax == 100
effectsSchema(e) == \A n \in EffectNames : SliderMin <= e[n] /\ e[n] <= SliderMax

Max(a, b) == IF a >= b THEN a ELSE b
Min(a, b) == IF a <= b THEN a ELSE b
Abs(a) == IF a >= 0 THEN a ELSE 0 - a

\* Math.round(n / d) for d > 0: the nearest integer, a half rounded up
MathRound(n, d) == (2 * n + d) \div (2 * d)

\* ------------------------------------------------------------- paths
uploadDir == "uploads"
tempDir == "uploads/temp"

NoPath == [dir |-> "", prefix |-> "null", id |-> 0, ext |-> ""]

\* multer filename: `${nanoid(10)}_${file.originalname}` under uploadDir
UploadPath(nano, ext) == [dir |-> uploadDir, prefix |-> "upload_", id |-> nano, ext |-> ext]

\* LofiPath with a fixed name in place of the nanoid
LofiPath_FixedName(inputPath, nano) ==
  [dir |-> inputPath.dir, prefix |-> "lofi_", id |-> 0, ext |-> inputPath.ext]
\* path.join(path.dirname(inputPath), `lofi_${nanoid(10)}${inputExt}`)
LofiPath(inputPath, nano) ==
  [dir |-> inputPath.dir, prefix |-> "lofi_", id |-> nano, ext |-> inputPath.ext]

crackleFile == [dir |-> tempDir, prefix |-> "crackle", id |-> 0, ext |-> ".wav"]
noiseFile == [dir |-> tempDir, prefix |-> "noise", id |-> 0, ext |-> ".wav"]

\* ---------------------------------------------------------- the disk
Exists(fs, p) == p \in DOMAIN fs
\* fs.access(p, R_OK) resolves
Readable(fs, p) == p \in DOMAIN fs /\ fs[p].readable
Put(fs, p, f) == [q \in DOMAIN fs \cup {p} |-> IF q = p THEN f ELSE fs[q]]
\* fs.unlink(p).catch(() => {}) and the existsSync-guarded unlink
Unlink(fs, p) == [q \in DOMAIN fs \ {p} |-> fs[q]]
File(size) == [size |-> size, readable |-> TRUE]

\* ------------------------------------------------------ normalization
\* raw / 100, in units of 1/Scale
Level(raw) == (raw * Scale) \div 100
\* SpeedRatio dividing by 100 as the level fields do
SpeedRatio_Div100(raw) == Scale - (raw * Scale) \div 100
\* 1 - raw / 300, in units of 1/Scale
SpeedRatio(raw) == Scale - (raw * Scale) \div 300
\* (raw / 100) * 12 dB, in units of 1/Scale dB
BassGainDb == 12
\* BassGain without the factor of 12 dB
BassGain_NoDb(raw) == Level(raw)
BassGain(raw) == Level(raw) * BassGainDb
\* Math.round((1 - raw / 100) * 16)
FullBitDepth == 16
BitDepthFloor == 8
BitDepth(raw) == MathRound((100 - raw) * FullBitDepth, 100)

\* the normalizedEffects object literal of the module in use
normalizedEffects(im, e) ==
  [vinylCrackle |-> Level(e.vinylCrackle),
   reverb |-> Level(e.reverb),
   beatSlowdown |-> SpeedRatio(e.beatSlowdown),
   bassBoost |-> BassGain(e.bassBoost),
   bitCrushing |-> IF im = "ffmpeg"
                   THEN Max(BitDepthFloor, BitDepth(e.bitCrushing))
                   ELSE BitDepth(e.bitCrushing),
   backgroundNoise |-> Level(e.backgroundNoise)]

\* ------------------------------------------------- the effect chains
\* thresholds of the byte-level module, in units of 1/Scale
MaskNoiseThreshold == 30
MaskReverbThreshold == 30
MaskTempoThreshold == 294

MaskActive(n, s) ==
  CASE s = "vinylCrackle" -> n.vinylCrackle > MaskNoiseThreshold
    [] s = "bitCrushing" -> n.bitCrushing < FullBitDepth
    [] s = "bassBoost" -> n.bassBoost > 0
    [] s = "reverb" -> n.reverb > MaskReverbThreshold
    [] s = "backgroundNoise" -> n.backgroundNoise > MaskNoiseThreshold
    [] s = "beatSlowdown" -> n.beatSlowdown < MaskTempoThreshold

\* the order of the if-blocks that rewrite outputBuffer
MaskOrder ==
  <<"vinylCrackle", "bitCrushing", "bassBoost", "reverb", "backgroundNoise",
    "beatSlowdown">>

MaskStages(n) == SelectSeq(MaskOrder, LAMBDA s : MaskActive(n, s))

\* thresholds of the FFmpeg module, in units of 1/Scale
FfmpegNoiseThreshold == 15
FfmpegBassThreshold == 150
FfmpegReverbThreshold == 30

\* FfmpegActive with every stage taken whatever its parameter
FfmpegActive_AllOn(n, s) == TRUE
FfmpegActive(n, s) ==
  CASE s = "beatSlowdown" -> TRUE
    [] s = "bassBoost" -> n.bassBoost > FfmpegBassThreshold
    [] s = "bitCrushing" -> n.bitCrushing < FullBitDepth
    [] s = "reverb" -> n.reverb > FfmpegReverbThreshold
    [] s = "vinylCrackle" -> n.vinylCrackle > FfmpegNoiseThreshold
    [] s = "backgroundNoise" -> n.backgroundNoise > FfmpegNoiseThreshold

\* the order in which filterComplex is extended
FfmpegOrder ==
  <<"beatSlowdown", "bassBoost", "bitCrushing", "reverb", "vinylCrackle",
    "backgroundNoise">>

FfmpegStages(n) == SelectSeq(FfmpegOrder, LAMBDA s : FfmpegActive(n, s))

\* the label a stage gives its output
StageLabel(s) ==
  CASE s = "beatSlowdown" -> "slowed"
    [] s = "bassBoost" -> "boosted"
    [] s = "bitCrushing" -> "crushed"
    [] s = "reverb" -> "reverbed"
    [] s = "vinylCrackle" -> "crackled"
    [] s = "backgroundNoise" -> "noised"

\* StageInput reading the tempo stage whatever came since
StageInput_Slowed(lastOutput) == "slowed"
\* the label a stage reads: [${lastOutput}]
StageInput(lastOutput) == lastOutput

\* the filters a stage appends to filterComplex: what each reads (labels or
\* input stream specifiers) and the label it defines
StageFilters(s, lastOutput) ==
  CASE s = "beatSlowdown" -> <<[reads |-> <<"0:a">>, out |-> "slowed"]>>
    [] s = "vinylCrackle" ->
         <<[reads |-> <<"1:a">>, out |-> "crackle"],
           [reads |-> <<StageInput(lastOutput), "crackle">>, out |-> StageLabel(s)]>>
    [] s = "backgroundNoise" ->
         <<[reads |-> <<"2:a">>, out |-> "noise"],
           [reads |-> <<StageInput(lastOutput), "noise">>, out |-> StageLabel(s)]>>
    [] OTHER -> <<[reads |-> <<StageInput(lastOutput)>>, out |-> StageLabel(s)]>>

RECURSIVE ExtendFilters(_, _)
ExtendFilters(stages, lastOutput) ==
  IF stages = <<>> THEN <<>>
  ELSE StageFilters(Head(stages), lastOutput)
         \o ExtendFilters(Tail(stages), StageLabel(Head(stages)))

\* filterComplex as the command carries it
filterComplex(n) == ExtendFilters(FfmpegStages(n), "")

\* -map [${lastOutput}]
MapLabel(n) == StageLabel(FfmpegStages(n)[Len(FfmpegStages(n))])

\* the -i arguments of ffmpegCmd, in the order they are appended
FfmpegInputs(inputPath, n) ==
  <<inputPath>>
    \o (IF FfmpegActive(n, "vinylCrackle") THEN <<crackleFile>> ELSE <<>>)
    \o (IF FfmpegActive(n, "backgroundNoise") THEN <<noiseFile>> ELSE <<>>)

\* the input stream each mix stage names in filterComplex: [1:a] and [2:a]
CrackleInputIndex == 1
NoiseInputIndex == 2

\* the stream indices filterComplex refers to (index 0 is the source)
FfmpegStreamRefs(n) ==
  {0}
    \cup (IF FfmpegActive(n, "vinylCrackle") THEN {CrackleInputIndex} ELSE {})
    \cup (IF FfmpegActive(n, "backgroundNoise") THEN {NoiseInputIndex} ELSE {})

\* ----------------------------------------------------- sizes, durations
\* headerSize is read but never changes a length; only lengths are modelled.

\* Buffer.alloc(Math.floor(Math.min(fileSize * 1.5, fileSize * (1 / ratio)))):
\* the lengths the slowed buffer can have, none when Buffer.alloc throws.
\* 1 / ratio is a rounded double: when fileSize / ratio is a whole number the
\* product can fall just below it, and Math.floor then gives one byte less.
\* SlowedSizes without the stretch: the buffer keeps the length of the input
SlowedSizes_NoStretch(fileSize, ratio) == {fileSize}
SlowedSizes(fileSize, ratio) ==
  IF ratio < 0 THEN (IF fileSize = 0 THEN {0} ELSE {})
  ELSE IF ratio = 0 THEN (IF fileSize = 0 THEN {} ELSE {(fileSize * 3) \div 2})
  ELSE LET capped == (fileSize * 3) \div 2
           exact == (fileSize * Scale) \div ratio
           whole == (fileSize * Scale) % ratio = 0
       IN  IF exact <= capped
           THEN (IF whole /\ exact > 0 THEN {exact, exact - 1} ELSE {exact})
           ELSE {capped}

\* MaskOutputSizes with the slowdown block entered whatever the ratio
MaskOutputSizes_AlwaysSlowed(fileSize, n) == SlowedSizes(fileSize, n.beatSlowdown)
\* outputBuffer.length at fs.writeFile
MaskOutputSizes(fileSize, n) ==
  IF MaskActive(n, "beatSlowdown")
  THEN SlowedSizes(fileSize, n.beatSlowdown)
  ELSE {fileSize}

\* ext.toLowerCase()
toLowerCase(ext) ==
  CASE ext = ".MP3" -> ".mp3"
    [] ext = ".WAV" -> ".wav"
    [] ext = ".OGG" -> ".ogg"
    [] ext = ".Flac" -> ".flac"
    [] OTHER -> ext

Mp3Bitrate == 128000
WavBitrate == 1411000
OggBitrate == 160000
FlacBitrate == 900000

\* Bitrate taking every file for an MP3
Bitrate_AllMp3(ext) == Mp3Bitrate
Bitrate(ext) ==
  CASE toLowerCase(ext) = ".wav" -> WavBitrate
    [] toLowerCase(ext) = ".ogg" -> OggBitrate
    [] toLowerCase(ext) = ".flac" -> FlacBitrate
    [] OTHER -> Mp3Bitrate

\* Math.max(1, Math.round((fileSize * 8) / bitrate))
EstimatedDuration(fileSize, ext) == Max(1, MathRound(fileSize * 8, Bitrate(ext)))

\* getAudioMetadata(filePath).duration by the size estimate: 0 when the file
\* is not readable or empty (the outer catch), the estimate otherwise
getAudioMetadata(fs, p) ==
  IF ~Readable(fs, p) \/ fs[p].size = 0 THEN 0
  ELSE EstimatedDuration(fs[p].size, p.ext)

\* ------------------------------------------- the ffmpeg child process
\* atempo accepts a tempo in [0.5, 100]
AtempoOk(ratio) == 2 * ratio >= Scale /\ ratio <= 100 * Scale

\* the command can run: the source decodes, every -i file is there, every
\* stream the graph names was added, and the tempo is one atempo accepts
FfmpegCommandOk(fs, inputPath, n) ==
  /\ Readable(fs, inputPath) /\ fs[inputPath].size > 0
  /\ \A i \in 1..Len(FfmpegInputs(inputPath, n)) : Readable(fs, FfmpegInputs(inputPath, n)[i])
  /\ \A r \in FfmpegStreamRefs(n) : r < Len(FfmpegInputs(inputPath, n))
  /\ AtempoOk(n.beatSlowdown)

\* [0:a]atempo=ratio: the output lasts 1/ratio times as long as the source
FfmpegOutputSize(fileSize, ratio) == (fileSize * Scale) \div ratio

\* "-t 3": three seconds of generated noise in a .wav file
NoiseBedSeconds == 3
NoiseBedBytes == (NoiseBedSeconds * WavBitrate) \div 8
ExecOutcomes == {"ok", "error"}

\* ------------------------------------------------------- processAudio
ErrInput == "Input file not accessible"
ErrVerify == "Failed to verify output file"
ErrRead == "ENOENT"
ErrAlloc == "RangeError"
ErrExec == "Command failed"

\* processAudio(options) as its caller hands it over: nothing computed yet
NoNorm == [n \in EffectNames |-> 0]
NewInvocation(kind, trackId, inputPath, effects) ==
  [kind |-> kind, trackId |-> trackId, pc |-> "call",
   inputPath |-> inputPath, effects |-> effects,
   outputPath |-> NoPath, norm |-> NoNorm,
   stages |-> <<>>, inputs |-> <<>>, filters |-> <<>>, mapped |-> "",
   outSize |-> 0, err |-> "",
   madeCrackle |-> FALSE, madeNoise |-> FALSE]

\* the outer catch: throw new Error(`Failed to process audio file: ${message}`)
Throw(t, e) == tasks' = [tasks EXCEPT ![t].pc = "thrown", ![t].err = e]
Goto(t, pc) == tasks' = [tasks EXCEPT ![t].pc = pc]

\* processAudio up to its first await: the output path from a new nanoid and
\* the normalized effects
PACall(t) ==
  /\ tasks[t].pc = "call"
  /\ tasks' = [tasks EXCEPT ![t].pc = "access",
                            ![t].outputPath = LofiPath(tasks[t].inputPath, nanoCount + 1),
                            ![t].norm = normalizedEffects(impl, tasks[t].effects)]
  /\ nanoCount' = nanoCount + 1
  /\ UNCHANGED <<clientVars, impl, probes, reply, files, tracks, currentTrackId, deletes>>

AfterAccess ==
  CASE impl = "mask" -> "read" [] impl = "copy" -> "copy" [] impl = "ffmpeg" -> "crackle"

\* PAAccess without the check: the module goes on to its first read
PAAccess_NoCheck(t) ==
  /\ tasks[t].pc = "access"
  /\ Goto(t, AfterAccess)
  /\ UNCHANGED <<clientVars, impl, probes, reply, files, tracks, currentTrackId, nanoCount, deletes>>

\* await fs.access(inputPath, R_OK), then the mkdir of directories that exist
PAAccess(t) ==
  /\ tasks[t].pc = "access"
  /\ IF Readable(files, tasks[t].inputPath)
     THEN Goto(t, AfterAccess)
     ELSE Throw(t, ErrInput)
  /\ UNCHANGED <<clientVars, impl, probes, reply, files, tracks, currentTrackId, nanoCount, deletes>>

\* byte-level module: await fs.readFile(inputPath), then the synchronous
\* rewriting of the buffer up to the call of fs.writeFile
PARead(t) ==
  /\ tasks[t].pc = "read"
  /\ LET T == tasks[t]
         sizes == IF Readable(files, T.inputPath)
                  THEN MaskOutputSizes(files[T.inputPath].size, T.norm)
                  ELSE {}
     IN  IF ~Readable(files, T.inputPath) THEN Throw(t, ErrRead)
         ELSE IF sizes = {} THEN
           tasks' = [tasks EXCEPT ![t].pc = "thrown", ![t].err = ErrAlloc,
                                  ![t].stages = MaskStages(T.norm)]
         ELSE \E out \in sizes :
           tasks' = [tasks EXCEPT ![t].pc = "write", ![t].outSize = out,
                                  ![t].stages = MaskStages(T.norm)]
  /\ UNCHANGED <<clientVars, impl, probes, reply, files, tracks, currentTrackId, nanoCount, deletes>>

\* byte-level module: await fs.writeFile(outputPath, outputBuffer)
PAWrite(t) ==
  /\ tasks[t].pc = "write"
  /\ files' = Put(files, tasks[t].outputPath, File(tasks[t].outSize))
  /\ Goto(t, "verify")
  /\ UNCHANGED <<clientVars, impl, probes, reply, tracks, currentTrackId, nanoCount, deletes>>

\* copy-only module: await fs.copyFile(inputPath, outputPath)
PACopy(t) ==
  /\ tasks[t].pc = "copy"
  /\ IF Readable(files, tasks[t].inputPath)
     THEN /\ files' = Put(files, tasks[t].outputPath,
                          File(files[tasks[t].inputPath].size))
          /\ tasks' = [tasks EXCEPT ![t].pc = "verify",
                                    ![t].outSize = files[tasks[t].inputPath].size]
     ELSE Throw(t, ErrRead) /\ UNCHANGED files
  /\ UNCHANGED <<clientVars, impl, probes, reply, tracks, currentTrackId, nanoCount, deletes>>

\* FFmpeg module: the anoisesrc command writing temp/crackle.wav. The
\* generator reads no file and is taken to succeed.
PAGenCrackle(t) ==
  /\ tasks[t].pc = "crackle"
  /\ IF FfmpegActive(tasks[t].norm, "vinylCrackle")
     THEN /\ files' = Put(files, crackleFile, File(NoiseBedBytes))
          /\ tasks' = [tasks EXCEPT ![t].pc = "noise", ![t].madeCrackle = TRUE]
     ELSE Goto(t, "noise") /\ UNCHANGED files
  /\ UNCHANGED <<clientVars, impl, probes, reply, tracks, currentTrackId, nanoCount, deletes>>

\* FFmpeg module: the anoisesrc command writing temp/noise.wav
PAGenNoise(t) ==
  /\ tasks[t].pc = "noise"
  /\ IF FfmpegActive(tasks[t].norm, "backgroundNoise")
     THEN /\ files' = Put(files, noiseFile, File(NoiseBedBytes))
          /\ tasks' = [tasks EXCEPT ![t].pc = "ffmpeg", ![t].madeNoise = TRUE]
     ELSE Goto(t, "ffmpeg") /\ UNCHANGED files
  /\ UNCHANGED <<clientVars, impl, probes, reply, tracks, currentTrackId, nanoCount, deletes>>

\* FFmpeg module: building ffmpegCmd and await execAsync(ffmpegCmd). A command
\* that cannot run fails before the output is opened; one that can run either
\* finishes or stops on an error with the output opened, so far empty.
PAFfmpeg(t) ==
  /\ tasks[t].pc = "ffmpeg"
  /\ LET T == tasks[t] IN
     IF ~FfmpegCommandOk(files, T.inputPath, T.norm)
     THEN /\ tasks' = [tasks EXCEPT ![t].pc = "thrown", ![t].err = ErrExec,
                                    ![t].stages = FfmpegStages(T.norm),
                      ![t].inputs = FfmpegInputs(T.inputPath, T.norm),
                      ![t].filters = filterComplex(T.norm),
                      ![t].mapped = MapLabel(T.norm)]
          /\ UNCHANGED files
     ELSE \E o \in ExecOutcomes :
            IF o = "ok"
            THEN /\ files' = Put(files, T.outputPath,
                      File(FfmpegOutputSize(files[T.inputPath].size, T.norm.beatSlowdown)))
                 /\ tasks' = [tasks EXCEPT ![t].pc = "cleanup",
                      ![t].outSize = FfmpegOutputSize(files[T.inputPath].size, T.norm.beatSlowdown),
                      ![t].stages = FfmpegStages(T.norm),
                      ![t].inputs = FfmpegInputs(T.inputPath, T.norm),
                      ![t].filters = filterComplex(T.norm),
                      ![t].mapped = MapLabel(T.norm)]
            ELSE /\ files' = Put(files, T.outputPath, File(0))
                 /\ tasks' = [tasks EXCEPT ![t].pc = "thrown", ![t].err = ErrExec,
                                           ![t].stages = FfmpegStages(T.norm),
                      ![t].inputs = FfmpegInputs(T.inputPath, T.norm),
                      ![t].filters = filterComplex(T.norm),
                      ![t].mapped = MapLabel(T.norm)]
  /\ UNCHANGED <<clientVars, impl, probes, reply, tracks, currentTrackId, nanoCount, deletes>>

\* FFmpeg module: unlink temp/crackle.wav and temp/noise.wav if they exist
PACleanup(t) ==
  /\ tasks[t].pc = "cleanup"
  /\ files' = Unlink(Unlink(files, crackleFile), noiseFile)
  /\ Goto(t, "verify")
  /\ UNCHANGED <<clientVars, impl, probes, reply, tracks, currentTrackId, nanoCount, deletes>>

AfterVerify ==
  CASE impl = "mask" -> "delay" [] impl = "copy" -> "stat" [] impl = "ffmpeg" -> "returned"

\* PAVerify without the size test: any readable output passes
PAVerify_NoSizeTest(t) ==
  /\ tasks[t].pc = "verify"
  /\ IF Readable(files, tasks[t].outputPath)
     THEN Goto(t, AfterVerify)
     ELSE Throw(t, ErrVerify)
  /\ UNCHANGED <<clientVars, impl, probes, reply, files, tracks, currentTrackId, nanoCount, deletes>>

\* fs.access(outputPath) and fs.stat(outputPath): size 0 or no file throws
PAVerify(t) ==
  /\ tasks[t].pc = "verify"
  /\ IF Readable(files, tasks[t].outputPath) /\ files[tasks[t].outputPath].size # 0
     THEN Goto(t, AfterVerify)
     ELSE Throw(t, ErrVerify)
  /\ UNCHANGED <<clientVars, impl, probes, reply, files, tracks, currentTrackId, nanoCount, deletes>>

\* copy-only module: (await fs.stat(inputPath)).size
PAStatInput(t) ==
  /\ tasks[t].pc = "stat"
  /\ IF Exists(files, tasks[t].inputPath)
     THEN Goto(t, "delay")
     ELSE Throw(t, ErrRead)
  /\ UNCHANGED <<clientVars, impl, probes, reply, files, tracks, currentTrackId, nanoCount, deletes>>

\* the simulated processing time, then return outputPath
PADelay(t) ==
  /\ tasks[t].pc = "delay"
  /\ Goto(t, "returned")
  /\ UNCHANGED <<clientVars, impl, probes, reply, files, tracks, currentTrackId, nanoCount, deletes>>

\* ------------------------------------ processAudio called on its own
\* One call of processAudio({trackId, inputPath, effects}) by a caller that
\* does not validate: any module, any input file or none, sliders in and out
\* of [0, 100].
RawValues == (0 - RawSkew)..(SliderMax + RawSkew) \cup {Scale, Scale + 1}

\* the largest sliders at which the byte-level module skips every effect
SkipEdge ==
  [vinylCrackle |-> 10, reverb |-> 10, beatSlowdown |-> 6, bassBoost |-> 0,
   bitCrushing |-> 3, backgroundNoise |-> 10]

EffectsInputs ==
  {Uniform(r) : r \in RawValues}
    \cup {[DefaultEffects EXCEPT ![n] = r] : n \in EffectNames, r \in RawValues}
    \cup {[SkipEdge EXCEPT ![n] = r] : n \in EffectNames, r \in 0..11}

InputExts == {".mp3", ".wav"}
InputSizes == {0, 2, 16000, 3000000}

InputFiles ==
  {<<>>} \cup UNION {{[size |-> s, readable |-> TRUE] : s \in InputSizes},
                    {[size |-> 16000, readable |-> FALSE]}}

InitPA ==
  /\ impl \in Impls
  /\ \E ext \in InputExts, f \in InputFiles, e \in EffectsInputs :
       /\ files = IF f = <<>> THEN <<>> ELSE (UploadPath(1, ext) :> f)
       /\ tasks = <<NewInvocation("direct", 0, UploadPath(1, ext), e)>>
  /\ tracks = <<>>
  /\ currentTrackId = 1
  /\ nanoCount = 1
  /\ deletes = {}
  /\ probes = <<>>
  /\ reply = NoReply
  /\ NoClient

NextPA ==
  \/ \E t \in DOMAIN tasks : PACall(t)
  \/ \E t \in DOMAIN tasks : PAAccess(t)
  \/ \E t \in DOMAIN tasks : PARead(t)
  \/ \E t \in DOMAIN tasks : PAWrite(t)
  \/ \E t \in DOMAIN tasks : PACopy(t)
  \/ \E t \in DOMAIN tasks : PAGenCrackle(t)
  \/ \E t \in DOMAIN tasks : PAGenNoise(t)
  \/ \E t \in DOMAIN tasks : PAFfmpeg(t)
  \/ \E t \in DOMAIN tasks : PACleanup(t)
  \/ \E t \in DOMAIN tasks : PAVerify(t)
  \/ \E t \in DOMAIN tasks : PAStatInput(t)
  \/ \E t \in DOMAIN tasks : PADelay(t)

SpecPA == InitPA /\ [][NextPA]_vars

\* ------------------------------------ getAudioMetadata called on its own
\* what ffprobe answers: an error, or the duration it prints, in units of
\* 1/Scale seconds (0 s, 0.3 s, 0.5 s, 2 s)
ProbeOutcomes ==
  {[ok |-> FALSE, duration |-> 0]}
    \cup {[ok |-> TRUE, duration |-> d] : d \in {0, 90, 150, 600}}

\* FFmpeg module, after ffprobe: Math.round(duration) of a duration that
\* parses and is positive, the size estimate in the inner catch otherwise
ProbeResult(o, fileSize, ext) ==
  IF o.ok /\ o.duration > 0
  THEN MathRound(o.duration, Scale)
  ELSE EstimatedDuration(fileSize, ext)

\* the durations getAudioMetadata(p) of the module in use can resolve to
MetadataDurations(im, fs, p) ==
  IF ~Readable(fs, p) \/ fs[p].size = 0 THEN {0}
  ELSE IF im = "ffmpeg"
       THEN {ProbeResult(o, fs[p].size, p.ext) : o \in ProbeOutcomes}
       ELSE {EstimatedDuration(fs[p].size, p.ext)}

NewProbe(path) ==
  [path |-> path, pc |-> "access", fileSize |-> 0, duration |-> 0, by |-> "none"]

Resolve(p, d, by) ==
  probes' = [probes EXCEPT ![p].pc = "resolved", ![p].duration = d, ![p].by = by]

\* GMCatch rethrowing what it caught: the promise rejects
GMCatch_Rethrow(p) == probes' = [probes EXCEPT ![p].pc = "rejected"]
\* the outer catch: return { duration: 0 }
GMCatch(p) == Resolve(p, 0, "catch")

\* await fs.access(filePath, R_OK)
GMAccess(p) ==
  /\ probes[p].pc = "access"
  /\ IF Readable(files, probes[p].path)
     THEN probes' = [probes EXCEPT ![p].pc = "stat"]
     ELSE GMCatch(p)
  /\ UNCHANGED <<clientVars, impl, reply, files, tracks, currentTrackId, nanoCount, tasks, deletes>>

\* await fs.stat(filePath): size 0 throws; the byte-level and copy-only
\* modules go on to the size estimate, the FFmpeg module to ffprobe
GMStat(p) ==
  /\ probes[p].pc = "stat"
  /\ LET path == probes[p].path IN
     IF ~Exists(files, path) \/ files[path].size = 0 THEN GMCatch(p)
     ELSE IF impl = "ffmpeg"
          THEN probes' = [probes EXCEPT ![p].pc = "ffprobe",
                                        ![p].fileSize = files[path].size]
          ELSE probes' = [probes EXCEPT ![p].pc = "resolved",
                            ![p].fileSize = files[path].size,
                            ![p].duration = EstimatedDuration(files[path].size, path.ext),
                            ![p].by = "estimate"]
  /\ UNCHANGED <<clientVars, impl, reply, files, tracks, currentTrackId, nanoCount, tasks, deletes>>

\* FFmpeg module: await execAsync(ffprobe ...)
GMProbe(p) ==
  /\ probes[p].pc = "ffprobe"
  /\ \E o \in ProbeOutcomes :
       Resolve(p, ProbeResult(o, probes[p].fileSize, probes[p].path.ext),
               IF o.ok /\ o.duration > 0 THEN "ffprobe" ELSE "estimate")
  /\ UNCHANGED <<clientVars, impl, reply, files, tracks, currentTrackId, nanoCount, tasks, deletes>>

\* One call of getAudioMetadata(filePath): any module, any extension, a file
\* of any size or none.
MetaExts == {".mp3", ".MP3", ".wav", ".WAV", ".ogg", ".OGG", ".flac", ".Flac", ".aac"}
MetaSizes == {0, 1, 8000, 24000, 3000000}

MetaFiles ==
  {<<>>} \cup UNION {{[size |-> s, readable |-> TRUE] : s \in MetaSizes},
                    {[size |-> 24000, readable |-> FALSE]}}

InitMeta ==
  /\ impl \in Impls
  /\ \E ext \in MetaExts, f \in MetaFiles :
       /\ files = IF f = <<>> THEN <<>> ELSE (UploadPath(1, ext) :> f)
       /\ probes = <<NewProbe(UploadPath(1, ext))>>
  /\ tracks = <<>>
  /\ currentTrackId = 1
  /\ nanoCount = 1
  /\ tasks = <<>>
  /\ deletes = {}
  /\ reply = NoReply
  /\ NoClient

NextMeta ==
  \/ \E p \in DOMAIN probes : GMAccess(p)
  \/ \E p \in DOMAIN probes : GMStat(p)
  \/ \E p \in DOMAIN probes : GMProbe(p)

SpecMeta == InitMeta /\ [][NextMeta]_vars

\* --------------------------------------------------------- MemStorage
\* nextTrackId handing out the same id again
nextTrackId_Same(id) == id
\* this.currentTrackId++: the counter after createTrack has taken id
nextTrackId(id) == id + 1

\* createdAt is new Date() at creation; the order of creation stands for it
createTrack(tr, id, insertTrack) ==
  Put(tr, id, [id |-> id,
               originalPath |-> insertTrack.originalPath,
               fileSize |-> insertTrack.fileSize,
               duration |-> insertTrack.duration,
               effects |-> insertTrack.effects,
               status |-> "uploading",
               lofiPath |-> NoPath,
               createdAt |-> id])

\* what Map.get gives for a key that is not there
undefined == [id |-> 0]

\* getTrack: this.tracks.get(id); the update methods return the record they
\* have just stored, or undefined
getTrack(tr, id) == IF id \in DOMAIN tr THEN tr[id] ELSE undefined

\* updateTrackStatus that stores a record also when the track is not there
updateTrackStatus_Upsert(tr, id, status) ==
  IF id \notin DOMAIN tr
  THEN Put(tr, id, [id |-> id, originalPath |-> NoPath, fileSize |-> 0,
                    duration |-> 0, effects |-> DefaultEffects,
                    status |-> status, lofiPath |-> NoPath, createdAt |-> id])
  ELSE [tr EXCEPT ![id].status = status]

updateTrackStatus(tr, id, status) ==
  IF id \notin DOMAIN tr THEN tr ELSE [tr EXCEPT ![id].status = status]

\* updateTrackLofiPath that marks the track completed without storing the path
updateTrackLofiPath_StatusOnly(tr, id, lofiPath) ==
  IF id \notin DOMAIN tr THEN tr ELSE [tr EXCEPT ![id].status = "completed"]

updateTrackLofiPath(tr, id, lofiPath) ==
  IF id \notin DOMAIN tr THEN tr
  ELSE [tr EXCEPT ![id].lofiPath = lofiPath, ![id].status = "completed"]

\* updateTrackEffects that also forgets the earlier result
updateTrackEffects_ResetLofi(tr, id, effects) ==
  IF id \notin DOMAIN tr THEN tr
  ELSE [tr EXCEPT ![id].effects = effects, ![id].status = "processing",
                  ![id].lofiPath = NoPath]

updateTrackEffects(tr, id, effects) ==
  IF id \notin DOMAIN tr THEN tr
  ELSE [tr EXCEPT ![id].effects = effects, ![id].status = "processing"]

\* ------------------------------------------------ routes, processTrack
\* processTrack(trackId) up to its call of processAudio: getTrack finds the
\* track the route has just stored, updateTrackStatus marks it 'processing',
\* and processAudio is called with the track's originalPath and effects.
\* Gives the store and the new invocation.
processTrackStore(tr, id) == updateTrackStatus(tr, id, "processing")
processTrackCall(tr, id) ==
  NewInvocation("track", id, tr[id].originalPath, tr[id].effects)

\* the files a client uploads; multer's fileFilter lets .mp3 and .wav pass
UploadFiles == {[size |-> 0, ext |-> ".mp3"], [size |-> 16000, ext |-> ".wav"]}

\* POST /api/tracks/upload: multer stores the file under a nanoid name, then
\* getAudioMetadata, createTrack with the default effects, processTrack
Upload(size, ext) ==
  /\ toLowerCase(ext) \in {".mp3", ".wav"}
  /\ currentTrackId <= MaxTracks
  /\ Len(tasks) < MaxTasks
  /\ \E d \in MetadataDurations(impl, Put(files, UploadPath(nanoCount + 1, ext), File(size)),
                                UploadPath(nanoCount + 1, ext)) :
     LET filePath == UploadPath(nanoCount + 1, ext)
         stored == Put(files, filePath, File(size))
         trackData == [originalPath |-> filePath, fileSize |-> size,
                       duration |-> d, effects |-> DefaultEffects]
         created == createTrack(tracks, currentTrackId, trackData)
     IN  /\ files' = stored
         /\ tracks' = processTrackStore(created, currentTrackId)
         /\ tasks' = Append(tasks, processTrackCall(created, currentTrackId))
         /\ currentTrackId' = nextTrackId(currentTrackId)
         /\ nanoCount' = nanoCount + 1
  /\ UNCHANGED <<clientVars, impl, probes, reply, deletes>>

\* the bodies a client sends to POST /api/tracks/effects
RequestEffects == {Uniform(0), Uniform(SliderMax), Uniform(SliderMax + 1)}

\* UpdateEffects without updateEffectsSchema.parse: any body is taken
UpdateEffects_NoParse(id, e) ==
  /\ reply' = IF id \notin DOMAIN tracks THEN 404 ELSE 200
  /\ IF id \in DOMAIN tracks
     THEN /\ Len(tasks) < MaxTasks
          /\ LET updated == updateTrackEffects(tracks, id, e)
             IN  /\ tracks' = processTrackStore(updated, id)
                 /\ tasks' = Append(tasks, processTrackCall(updated, id))
     ELSE UNCHANGED <<tracks, tasks>>
  /\ UNCHANGED <<clientVars, impl, probes, files, currentTrackId, nanoCount, deletes>>

\* the status code POST /api/tracks/effects answers with: 400 for a body
\* updateEffectsSchema.parse throws on (ZodError), 404 for a track getTrack
\* does not find, 200 with the updated track otherwise
EffectsResponse(tr, id, e) ==
  IF ~effectsSchema(e) THEN 400
  ELSE IF id \notin DOMAIN tr THEN 404 ELSE 200

\* POST /api/tracks/effects: a rejected request returns at once; otherwise
\* updateTrackEffects, then processTrack, and the updated track is the answer
UpdateEffects(id, e) ==
  /\ reply' = EffectsResponse(tracks, id, e)
  /\ IF EffectsResponse(tracks, id, e) = 200
     THEN /\ Len(tasks) < MaxTasks
          /\ LET updated == updateTrackEffects(tracks, id, e)
             IN  /\ tracks' = processTrackStore(updated, id)
                 /\ tasks' = Append(tasks, processTrackCall(updated, id))
     ELSE UNCHANGED <<tracks, tasks>>
  /\ UNCHANGED <<clientVars, impl, probes, files, currentTrackId, nanoCount, deletes>>

\* DELETE /api/tracks/:id, deleteTrack up to its last await: the track is
\* read and its originalPath unlinked
DeleteBegin(id) ==
  /\ id \in DOMAIN tracks
  /\ files' = Unlink(files, tracks[id].originalPath)
  /\ deletes' = deletes \cup {[id |-> id, lofiPath |-> tracks[id].lofiPath]}
  /\ UNCHANGED <<clientVars, impl, probes, reply, tracks, currentTrackId, nanoCount, tasks>>

\* deleteTrack's end: the lofiPath read at the start is unlinked if it was
\* set, then this.tracks.delete(id)
DeleteFinish(d) ==
  /\ d \in deletes
  /\ files' = IF d.lofiPath # NoPath THEN Unlink(files, d.lofiPath) ELSE files
  /\ tracks' = [i \in DOMAIN tracks \ {d.id} |-> tracks[i]]
  /\ deletes' = deletes \ {d}
  /\ UNCHANGED <<clientVars, impl, probes, reply, currentTrackId, nanoCount, tasks>>

\* PTStoreLofi that ends without updateTrackLofiPath
PTStoreLofi_NoStore(t) ==
  /\ tasks[t].kind = "track"
  /\ tasks[t].pc = "returned"
  /\ Goto(t, "done")
  /\ UNCHANGED <<clientVars, impl, probes, reply, files, tracks, currentTrackId, nanoCount, deletes>>

\* processTrack after processAudio returned: updateTrackLofiPath
PTStoreLofi(t) ==
  /\ tasks[t].kind = "track"
  /\ tasks[t].pc = "returned"
  /\ tracks' = updateTrackLofiPath(tracks, tasks[t].trackId, tasks[t].outputPath)
  /\ Goto(t, "done")
  /\ UNCHANGED <<clientVars, impl, probes, reply, files, currentTrackId, nanoCount, deletes>>

\* PTCatch with neither catch touching the store
PTCatch_NoStatus(t) ==
  /\ tasks[t].kind = "track"
  /\ tasks[t].pc = "thrown"
  /\ Goto(t, "failed")
  /\ UNCHANGED <<clientVars, impl, probes, reply, files, tracks, currentTrackId, nanoCount, deletes>>

\* processTrack's catch (status 'error', rethrow) and the route's .catch
\* (status 'error' again)
PTCatch(t) ==
  /\ tasks[t].kind = "track"
  /\ tasks[t].pc = "thrown"
  /\ tracks' = updateTrackStatus(updateTrackStatus(tracks, tasks[t].trackId, "error"),
                                 tasks[t].trackId, "error")
  /\ Goto(t, "failed")
  /\ UNCHANGED <<clientVars, impl, probes, reply, files, currentTrackId, nanoCount, deletes>>

Init ==
  /\ impl \in Impls
  /\ files = <<>>
  /\ tracks = <<>>
  /\ currentTrackId = 1
  /\ nanoCount = 0
  /\ tasks = <<>>
  /\ deletes = {}
  /\ probes = <<>>
  /\ reply = NoReply
  /\ NoClient

Next ==
  \/ \E f \in UploadFiles : Upload(f.size, f.ext)
  \/ \E id \in 1..currentTrackId, e \in RequestEffects : UpdateEffects(id, e)
  \/ \E id \in DOMAIN tracks : DeleteBegin(id)
  \/ \E d \in deletes : DeleteFinish(d)
  \/ \E t \in DOMAIN tasks : PACall(t)
  \/ \E t \in DOMAIN tasks : PAAccess(t)
  \/ \E t \in DOMAIN tasks : PARead(t)
  \/ \E t \in DOMAIN tasks : PAWrite(t)
  \/ \E t \in DOMAIN tasks : PACopy(t)
  \/ \E t \in DOMAIN tasks : PAGenCrackle(t)
  \/ \E t \in DOMAIN tasks : PAGenNoise(t)
  \/ \E t \in DOMAIN tasks : PAFfmpeg(t)
  \/ \E t \in DOMAIN tasks : PACleanup(t)
  \/ \E t \in DOMAIN tasks : PAVerify(t)
  \/ \E t \in DOMAIN tasks : PAStatInput(t)
  \/ \E t \in DOMAIN tasks : PADelay(t)
  \/ \E t \in DOMAIN tasks : PTStoreLofi(t)
  \/ \E t \in DOMAIN tasks : PTCatch(t)

Spec == Init /\ [][Next]_vars

\* one step of transformation t: of its processAudio call or of the
\* processTrack around it
TaskStep(t) ==
  /\ t \in DOMAIN tasks
  /\ \/ PACall(t) \/ PAAccess(t) \/ PARead(t) \/ PAWrite(t) \/ PACopy(t)
     \/ PAGenCrackle(t) \/ PAGenNoise(t) \/ PAFfmpeg(t) \/ PACleanup(t)
     \/ PAVerify(t) \/ PAStatInput(t) \/ PADelay(t)
     \/ PTStoreLofi(t) \/ PTCatch(t)

\* the server with every started transformation running on: each await of
\* processAudio and processTrack settles (file system calls, the ffmpeg
\* child process, the timer), and the event loop resumes the continuation
SpecLive == Init /\ [][Next]_vars /\ \A t \in 1..MaxTasks : WF_vars(TaskStep(t))

\* ------------------------------------------- the client's audio registry
\* the ids AudioPlayer registers for a track (`original_${track.id}`,
\* `lofi_${track.id}`) and the sources it asks for (`/api/audio/<file>`)
AudioIds == {"original_1", "lofi_1"}
AudioSrcs == {"/api/audio/lofi_a.mp3", "/api/audio/lofi_b.mp3"}
\* pauseAllExcept's excludeId is optional
ExcludeIds == AudioIds \cup {"undefined"}
MaxHowls == 3

\* new Howl({src: [src], ...}): Howler keeps the src option as the array it
\* was given until load() has chosen a playable entry, and as that entry, a
\* string, afterwards; which of the two a Howl holds is Howler's business
NewHowl(n, src, isArray) ==
  [howl |-> n, src |-> src, srcIsArray |-> isArray, playing |-> FALSE]

\* (howl as any)._src[0]: the source itself if _src is the array, the first
\* character of the source if it is the string
currentSrc0(instance) == IF instance.srcIsArray THEN instance.src ELSE "/"

\* getAudioInstance's test for creating a Howl: audio.ts asks only whether
\* the id is registered, part_000 also compares currentSrc[0] with src
CreatesHowl(lib, instances, id, src) ==
  IF lib = "audio.ts"
  THEN id \notin DOMAIN instances
  ELSE id \notin DOMAIN instances \/ currentSrc0(instances[id]) # src

\* getAudioInstance(id, src); part_000 unloads the Howl it replaces
getAudioInstance(id, src, isArray) ==
  /\ IF CreatesHowl(audioLib, audioInstances, id, src)
     THEN /\ howlCount < MaxHowls
          /\ howlCount' = howlCount + 1
          /\ audioInstances' = Put(audioInstances, id, NewHowl(howlCount + 1, src, isArray))
          /\ unloaded' = IF audioLib = "part_000" /\ id \in DOMAIN audioInstances
                         THEN unloaded \cup {audioInstances[id].howl}
                         ELSE unloaded
     ELSE UNCHANGED <<howlCount, audioInstances, unloaded>>
  /\ audioReturn' = [op |-> "getAudioInstance", id |-> id, src |-> src,
                     howl |-> audioInstances'[id].howl,
                     playing |-> audioInstances'[id].playing]
  /\ UNCHANGED <<audioLib, serverVars>>

\* pausedExcept that pauses nothing
pausedExcept_None(instances, excludeId) == instances

\* the registry after pauseAllExcept(excludeId): every other playing
\* instance is paused and its flag cleared
pausedExcept(instances, excludeId) ==
  [i \in DOMAIN instances |->
     IF i # excludeId /\ instances[i].playing
     THEN [instances[i] EXCEPT !.playing = FALSE]
     ELSE instances[i]]

\* togglePlay(id): false for an id that is not registered; a playing
\* instance is paused; otherwise pauseAllExcept(id), then play
togglePlay(id) ==
  /\ audioInstances' =
       IF id \notin DOMAIN audioInstances THEN audioInstances
       ELSE IF audioInstances[id].playing
            THEN [audioInstances EXCEPT ![id].playing = FALSE]
            ELSE [pausedExcept(audioInstances, id) EXCEPT ![id].playing = TRUE]
  /\ audioReturn' = [op |-> "togglePlay", id |-> id, src |-> "", howl |-> 0,
                     playing |-> IF id \in DOMAIN audioInstances
                                 THEN audioInstances'[id].playing ELSE FALSE]
  /\ UNCHANGED <<audioLib, howlCount, unloaded, serverVars>>

pauseAllExcept(excludeId) ==
  /\ audioInstances' = pausedExcept(audioInstances, excludeId)
  /\ audioReturn' = [op |-> "pauseAllExcept", id |-> excludeId, src |-> "",
                     howl |-> 0, playing |-> FALSE]
  /\ UNCHANGED <<audioLib, howlCount, unloaded, serverVars>>

\* removeAudioInstance(id): stop and unload the Howl, delete the entry
removeAudioInstance(id) ==
  /\ unloaded' = IF id \in DOMAIN audioInstances
                 THEN unloaded \cup {audioInstances[id].howl} ELSE unloaded
  /\ audioInstances' = [i \in DOMAIN audioInstances \ {id} |-> audioInstances[i]]
  /\ audioReturn' = [op |-> "removeAudioInstance", id |-> id, src |-> "",
                     howl |-> 0, playing |-> FALSE]
  /\ UNCHANGED <<audioLib, howlCount, serverVars>>

InitAudio ==
  /\ impl = "mask"
  /\ files = <<>>
  /\ tracks = <<>>
  /\ currentTrackId = 1
  /\ nanoCount = 0
  /\ tasks = <<>>
  /\ deletes = {}
  /\ probes = <<>>
  /\ reply = NoReply
  /\ audioLib \in AudioLibs
  /\ audioInstances = <<>>
  /\ howlCount = 0
  /\ unloaded = {}
  /\ audioReturn = NoReturn

NextAudio ==
  \/ \E id \in AudioIds, src \in AudioSrcs, isArray \in BOOLEAN :
       getAudioInstance(id, src, isArray)
  \/ \E id \in AudioIds : togglePlay(id)
  \/ \E excludeId \in ExcludeIds : pauseAllExcept(excludeId)
  \/ \E id \in AudioIds : removeAudioInstance(id)

SpecAudio == InitAudio /\ [][NextAudio]_vars

\* ============================================================== claims
InFlight(t) == tasks[t].kind = "track" /\ tasks[t].pc \notin {"done", "failed"}
Returned(t) == tasks[t].pc = "returned"
Thrown(t) == tasks[t].pc = "thrown"
Normalized(t) == tasks[t].pc # "call"
InRange(t) == Normalized(t) /\ effectsSchema(tasks[t].effects)

\* C1: for every track id at most one background transformation
\* (processTrack -> processAudio) is in flight at any moment.
C1_AtMostOneInFlight ==
  \A i, j \in DOMAIN tasks :
    (InFlight(i) /\ InFlight(j) /\ tasks[i].trackId = tasks[j].trackId) => i = j

\* C2: when processAudio has failed, its output path does not exist and the
\* temp noise files it generated have been removed.
C2_NoArtifactAfterFailure ==
  \A t \in DOMAIN tasks :
    Thrown(t) =>
      /\ ~Exists(files, tasks[t].outputPath)
      /\ (tasks[t].madeCrackle => ~Exists(files, crackleFile))
      /\ (tasks[t].madeNoise => ~Exists(files, noiseFile))

\* C3: an input that is missing or not readable makes processAudio fail with
\* 'Input file not accessible' before anything is written: the invocation is
\* at its access check or has thrown that error, and no output file exists.
C3_InputNotAccessible ==
  \A t \in DOMAIN tasks :
    ~Readable(files, tasks[t].inputPath) =>
      /\ tasks[t].pc \in {"call", "access", "thrown"}
      /\ (Thrown(t) => tasks[t].err = ErrInput)
      /\ ~Exists(files, tasks[t].outputPath)

C3_Witness ==
  \E t \in DOMAIN tasks :
    /\ Thrown(t) /\ tasks[t].err = ErrInput
    /\ ~Readable(files, tasks[t].inputPath)
    /\ tasks[t].effects = DefaultEffects

\* C4: when processAudio has returned a path, or has passed its verification
\* of the output, a readable file of non-zero size is at that path.
C4_ReturnedOutputNonEmpty ==
  \A t \in DOMAIN tasks :
    tasks[t].pc \in {"stat", "delay", "returned"} =>
      /\ Readable(files, tasks[t].outputPath)
      /\ files[tasks[t].outputPath].size > 0

C4_Witness ==
  \E t \in DOMAIN tasks :
    /\ Returned(t)
    /\ files[tasks[t].outputPath].size > 0
    /\ \E u \in DOMAIN tasks : Thrown(u) /\ tasks[u].err = ErrVerify

\* C5: for bitCrushing in 0..100 the normalized bit depth is
\* max(8, round((1 - raw/100) * 16)), an integer in [8, 16].
C5_BitDepthRange ==
  \A t \in DOMAIN tasks :
    InRange(t) =>
      /\ tasks[t].norm.bitCrushing \in BitDepthFloor..FullBitDepth
      /\ tasks[t].norm.bitCrushing =
           Max(BitDepthFloor, MathRound((100 - tasks[t].effects.bitCrushing) * FullBitDepth, 100))

C7_NormalizationPure ==
  \A t \in DOMAIN tasks :
    LET e == tasks[t].effects
        n == tasks[t].norm
    IN  InRange(t) =>
          /\ \A f \in {"vinylCrackle", "reverb", "backgroundNoise"} :
               n[f] * 100 = e[f] * Scale /\ 0 <= n[f] /\ n[f] <= Scale
          /\ n.bassBoost * 100 = e.bassBoost * 12 * Scale
          /\ 0 <= n.bassBoost /\ n.bassBoost <= 12 * Scale
          /\ (e.vinylCrackle = 100 => n.vinylCrackle = Scale)
          /\ (e.bassBoost = 0 => n.bassBoost = 0)
          /\ (e.bitCrushing = 0 => n.bitCrushing = 16)
          /\ n = normalizedEffects(impl, e)

C7_Witness ==
  \E t \in DOMAIN tasks :
    /\ tasks[t].effects = Uniform(SliderMax)
    /\ tasks[t].norm.vinylCrackle = Scale
    /\ tasks[t].norm.bassBoost = 12 * Scale
    /\ Returned(t)

\* C8: for any integer slider values, in or out of [0, 100], every normalized
\* field stays in its domain (levels in [0, 1], bass gain in [0, 12] dB, bit
\* depth in [8, 16], speed ratio at most 1.0) and processAudio does not fail
\* on the skewed value.
C8_NormalizerClamps ==
  \A t \in DOMAIN tasks :
    LET n == tasks[t].norm
    IN  Normalized(t) =>
          /\ \A f \in {"vinylCrackle", "reverb", "backgroundNoise"} :
               0 <= n[f] /\ n[f] <= Scale
          /\ 0 <= n.bassBoost /\ n.bassBoost <= 12 * Scale
          /\ n.bitCrushing \in 8..16
          /\ n.beatSlowdown <= Scale
          /\ tasks[t].err # ErrAlloc

\* C9: the byte-level processAudio applies its active effects in the order
\* beat slowdown, bass boost, bit crushing, reverb, vinyl crackle, background
\* noise.
TempoFirstOrder ==
  <<"beatSlowdown", "bassBoost", "bitCrushing", "reverb", "vinylCrackle",
    "backgroundNoise">>
PlaceIn(order, s) == CHOOSE i \in 1..Len(order) : order[i] = s
C9_TempoFirstOrder ==
  \A t \in DOMAIN tasks :
    impl = "mask" =>
      \A i, j \in 1..Len(tasks[t].stages) :
        i < j => PlaceIn(TempoFirstOrder, tasks[t].stages[i])
                   < PlaceIn(TempoFirstOrder, tasks[t].stages[j])

\* C10: durations as getAudioMetadata reports them, for the byte-level
\* processAudio that has returned, with beatSlowdown in 0..100.
\* expected = dIn / (1 - raw/300) = dIn * 300 / (300 - raw)
DurationIn(t) == getAudioMetadata(files, tasks[t].inputPath)
DurationOut(t) == getAudioMetadata(files, tasks[t].outputPath)
\* |dOut - expected| * (300 - raw)
DurationGap(t) ==
  Abs(DurationOut(t) * (300 - tasks[t].effects.beatSlowdown) - DurationIn(t) * 300)
Within5Percent(t) == DurationGap(t) * 100 <= 5 * DurationIn(t) * 300
WithinSeconds(t) == DurationGap(t) * 2 < 3 * (300 - tasks[t].effects.beatSlowdown)
C10Case(t) ==
  /\ impl = "mask" /\ Returned(t)
  /\ InRange(t)
  /\ Readable(files, tasks[t].inputPath)

\* C10 as stated: the output's duration is within 5% of the input's duration
\* divided by the speed ratio.
C10_DurationWithin5Percent ==
  \A t \in DOMAIN tasks : C10Case(t) => Within5Percent(t)

\* C10 as amended: the output's duration is within 5% of the input's duration
\* divided by the speed ratio, or less than 1.5 seconds away from it (both
\* durations are whole seconds, at least 1).
C10_DurationWithinRounding ==
  \A t \in DOMAIN tasks : C10Case(t) => (Within5Percent(t) \/ WithinSeconds(t))

C10_Witness ==
  \E t \in DOMAIN tasks :
    /\ C10Case(t)
    /\ tasks[t].effects.beatSlowdown = 100
    /\ files[tasks[t].inputPath].size = 3000000
    /\ DurationOut(t) > DurationIn(t)
    /\ Within5Percent(t)

\* C11: for effects in which every slider is at or below the value at which
\* the byte-level processAudio skips its effect (vinyl crackle, reverb and
\* background noise <= 10, bass boost <= 0, bit crushing <= 3, beat slowdown
\* <= 6), a returned invocation on a readable non-empty input has written an
\* output that exists, is non-empty and has the byte length of the input, and
\* the two durations getAudioMetadata reports differ by at most 1 second.
AtSkipThreshold(e) ==
  /\ e.vinylCrackle <= 10 /\ e.reverb <= 10 /\ e.backgroundNoise <= 10
  /\ e.bassBoost <= 0 /\ e.bitCrushing <= 3 /\ e.beatSlowdown <= 6
C11Case(t) ==
  /\ impl = "mask" /\ Returned(t)
  /\ AtSkipThreshold(tasks[t].effects)
  /\ Readable(files, tasks[t].inputPath)
  /\ files[tasks[t].inputPath].size > 0
C11_NoOpKeepsLength ==
  \A t \in DOMAIN tasks :
    C11Case(t) =>
      /\ Readable(files, tasks[t].outputPath)
      /\ files[tasks[t].outputPath].size > 0
      /\ files[tasks[t].outputPath].size = files[tasks[t].inputPath].size
      /\ tasks[t].stages = <<>>
      /\ Abs(DurationOut(t) - DurationIn(t)) <= 1

C11_Witness ==
  \E t \in DOMAIN tasks :
    /\ C11Case(t)
    /\ tasks[t].effects = SkipEdge
    /\ files[tasks[t].outputPath].size = 16000

\* C12: getAudioMetadata called on a path.
Rejected(p) == probes[p].pc = "rejected"
Resolved(p) == probes[p].pc = "resolved"
BadFile(p) ==
  \/ ~Readable(files, probes[p].path)
  \/ files[probes[p].path].size = 0

\* C12 as stated: getAudioMetadata never rejects, resolves to an integer
\* duration >= 0, and resolves to 0 exactly when the file is missing,
\* unreadable or has size 0.
C12_ZeroExactlyOnFailure ==
  \A p \in DOMAIN probes :
    /\ ~Rejected(p)
    /\ Resolved(p) =>
         /\ probes[p].duration >= 0
         /\ (probes[p].duration = 0 <=> BadFile(p))

\* C12 as amended: getAudioMetadata never rejects, resolves to an integer
\* duration >= 0, and resolves to 0 whenever the file is missing, unreadable
\* or has size 0; the modules that estimate from the size resolve to 0 only
\* then, and the FFmpeg module also when ffprobe printed a duration that
\* rounds to 0.
C12_ZeroOnFailure ==
  \A p \in DOMAIN probes :
    /\ ~Rejected(p)
    /\ Resolved(p) =>
         /\ probes[p].duration >= 0
         /\ (BadFile(p) => probes[p].duration = 0)
         /\ (probes[p].duration = 0 /\ ~BadFile(p)
               => impl = "ffmpeg" /\ probes[p].by = "ffprobe")

C12_Witness ==
  \E p \in DOMAIN probes :
    /\ Resolved(p) /\ probes[p].duration = 0
    /\ ~Exists(files, probes[p].path)

\* C13: when getAudioMetadata resolves by the size estimate, the duration is
\* max(1, round(fileSize * 8 / bitrate)), a half rounded up, with bitrate
\* 128000 for .mp3, 1411000 for .wav, 160000 for .ogg, 900000 for .flac, the
\* extension compared without case and any other extension taken as 128000;
\* so the duration is at least 1.
AssumedBitrate(ext) ==
  CASE ext \in {".wav", ".WAV"} -> 1411000
    [] ext \in {".ogg", ".OGG"} -> 160000
    [] ext \in {".flac", ".Flac"} -> 900000
    [] OTHER -> 128000
NearestSecond(d, bits, rate) ==
  2 * d * rate - rate <= 2 * bits /\ 2 * bits < 2 * d * rate + rate
C13_SizeEstimate ==
  \A p \in DOMAIN probes :
    (Resolved(p) /\ probes[p].by = "estimate") =>
      LET bits == probes[p].fileSize * 8
          rate == AssumedBitrate(probes[p].path.ext)
          d == probes[p].duration
      IN  /\ d >= 1
          /\ \/ NearestSecond(d, bits, rate)
             \/ d = 1 /\ 2 * bits < rate

C13_Witness ==
  \E p \in DOMAIN probes :
    /\ Resolved(p) /\ probes[p].by = "estimate"
    /\ probes[p].path.ext = ".WAV"
    /\ probes[p].fileSize = 3000000
    /\ probes[p].duration = 17

\* C14: the step in which processAudio chooses its output path gives a path
\* in the directory of the input, with the extension of the input, different
\* from the input path, naming no file that exists, and different from every
\* track's original and lo-fi path and from every other invocation's output
\* path.
C14_FreshOutputPath ==
  [][\A t \in DOMAIN tasks :
       (tasks[t].pc = "call" /\ tasks'[t].pc # "call") =>
         /\ tasks'[t].outputPath.dir = tasks[t].inputPath.dir
         /\ tasks'[t].outputPath.ext = tasks[t].inputPath.ext
         /\ tasks'[t].outputPath # tasks[t].inputPath
         /\ ~Exists(files, tasks'[t].outputPath)
         /\ \A id \in DOMAIN tracks :
              /\ tasks'[t].outputPath # tracks[id].originalPath
              /\ tasks'[t].outputPath # tracks[id].lofiPath
         /\ \A u \in DOMAIN tasks :
              u # t => tasks'[t].outputPath # tasks[u].outputPath]_vars

C14_Witness ==
  \E t, u \in DOMAIN tasks :
    /\ t # u /\ tasks[t].trackId = tasks[u].trackId
    /\ tasks[u].pc = "done" /\ Exists(files, tasks[u].outputPath)
    /\ Normalized(t)
    /\ tasks[t].outputPath # tasks[u].outputPath
    /\ tasks[t].outputPath.ext = tasks[t].inputPath.ext

\* C15: invocations for different tracks do not interfere through the temp
\* directory: an invocation of the FFmpeg module that has generated a noise
\* file and has not yet run its ffmpeg command still finds that file, whatever
\* the invocations for other tracks have done meanwhile.
OtherTracksOnly(t) ==
  \A u \in DOMAIN tasks : u # t => tasks[u].trackId # tasks[t].trackId
C15_TempFilesNotShared ==
  \A t \in DOMAIN tasks :
    (impl = "ffmpeg" /\ OtherTracksOnly(t)) =>
      /\ (tasks[t].pc \in {"noise", "ffmpeg"} /\ tasks[t].madeCrackle)
           => Exists(files, crackleFile)
      /\ (tasks[t].pc = "ffmpeg" /\ tasks[t].madeNoise)
           => Exists(files, noiseFile)

\* C16: the step in which a failed background transformation finishes leaves
\* its track, if the track still exists, with status 'error' (not 'uploading',
\* 'processing' or 'completed'), and a failed processAudio finishes in no
\* other way than through processTrack's catch.
C16_FailureSetsError ==
  [][\A t \in DOMAIN tasks :
       (tasks[t].kind = "track" /\ tasks[t].pc = "thrown" /\ tasks'[t].pc # "thrown") =>
         /\ tasks'[t].pc = "failed"
         /\ tasks[t].trackId \in DOMAIN tracks'
              => tracks'[tasks[t].trackId].status = "error"]_vars

C16_Witness ==
  \E t \in DOMAIN tasks :
    /\ tasks[t].pc = "failed" /\ tasks[t].err = ErrVerify
    /\ tasks[t].trackId \in DOMAIN tracks
    /\ tracks[tasks[t].trackId].status = "error"

\* C17: in an invocation of the FFmpeg module that has built its command, a
\* stage is in the chain exactly when its parameter is above its threshold:
\* bass boost iff gain > 0.5 dB, bit crushing iff bit depth < 16, reverb iff
\* level > 0.1, vinyl crackle iff level > 0.05, background noise iff level >
\* 0.05; and a noise file was generated iff its mix stage is in the chain.
InChain(t, s) == \E i \in 1..Len(tasks[t].stages) : tasks[t].stages[i] = s
BuiltCommand(t) == impl = "ffmpeg" /\ tasks[t].stages # <<>>
C17_StageThresholds ==
  \A t \in DOMAIN tasks :
    BuiltCommand(t) =>
      LET n == tasks[t].norm
      IN  /\ InChain(t, "beatSlowdown")
          /\ InChain(t, "bassBoost") <=> n.bassBoost * 2 > Scale
          /\ InChain(t, "bitCrushing") <=> n.bitCrushing < 16
          /\ InChain(t, "reverb") <=> n.reverb * 10 > Scale
          /\ InChain(t, "vinylCrackle") <=> n.vinylCrackle * 20 > Scale
          /\ InChain(t, "backgroundNoise") <=> n.backgroundNoise * 20 > Scale
          /\ tasks[t].madeCrackle <=> InChain(t, "vinylCrackle")
          /\ tasks[t].madeNoise <=> InChain(t, "backgroundNoise")

C17_Witness ==
  \E t \in DOMAIN tasks :
    /\ BuiltCommand(t) /\ Returned(t)
    /\ tasks[t].effects = [DefaultEffects EXCEPT !.bassBoost = 4]
    /\ ~InChain(t, "bassBoost")
    /\ InChain(t, "vinylCrackle") /\ tasks[t].madeCrackle

\* C18: in an invocation of the FFmpeg module that has built its command, the
\* filter graph is one linear chain: its first filter is the tempo stage on
\* the source stream, there is one chain filter per active stage, each chain
\* filter after the first reads the label the chain filter before it defines,
\* every label is defined once and before it is read, and the label mapped to
\* the output file is the one the last chain filter defines.
NoiseStreams == {"1:a", "2:a"}
InputStreams == {"0:a"} \cup NoiseStreams
ChainFilters(t) ==
  SelectSeq(tasks[t].filters, LAMBDA f : f.reads[1] \notin NoiseStreams)
C18_LinearChain ==
  \A t \in DOMAIN tasks :
    BuiltCommand(t) =>
      LET F == tasks[t].filters
          C == ChainFilters(t)
      IN  /\ F[1] = [reads |-> <<"0:a">>, out |-> "slowed"]
          /\ Len(C) = Len(tasks[t].stages)
          /\ \A i \in 1..Len(C) : C[i].out = StageLabel(tasks[t].stages[i])
          /\ \A i \in 2..Len(C) : C[i].reads[1] = C[i - 1].out
          /\ \A i, j \in 1..Len(F) : F[i].out = F[j].out => i = j
          /\ \A i \in 1..Len(F) : \A k \in 1..Len(F[i].reads) :
               \/ F[i].reads[k] \in InputStreams
               \/ \E j \in 1..(i - 1) : F[j].out = F[i].reads[k]
          /\ tasks[t].mapped = C[Len(C)].out

C18_Witness ==
  \E t \in DOMAIN tasks :
    /\ BuiltCommand(t) /\ Returned(t)
    /\ tasks[t].effects = DefaultEffects
    /\ Len(tasks[t].filters) = 8
    /\ tasks[t].mapped = "noised"

\* C19: in an invocation of the FFmpeg module that has built its command
\* (sliders in 0..100), every input stream the filter graph reads was added
\* to the command: the filter defining [crackle] reads the input at which the
\* crackle file was added and the filter defining [noise] reads the input at
\* which the noise file was added.
StreamIndex(stream) ==
  CASE stream = "0:a" -> 0 [] stream = "1:a" -> 1 [] stream = "2:a" -> 2
StreamReadIs(t, f, file) ==
  /\ StreamIndex(f.reads[1]) < Len(tasks[t].inputs)
  /\ tasks[t].inputs[StreamIndex(f.reads[1]) + 1] = file
C19_InputIndices ==
  \A t \in DOMAIN tasks :
    (BuiltCommand(t) /\ InRange(t)) =>
      \A i \in 1..Len(tasks[t].filters) :
        LET f == tasks[t].filters[i]
        IN  /\ f.out = "slowed" => StreamReadIs(t, f, tasks[t].inputPath)
            /\ f.out = "crackle" => StreamReadIs(t, f, crackleFile)
            /\ f.out = "noise" => StreamReadIs(t, f, noiseFile)

\* C20: whenever a track is 'completed' and no transformation for it is in
\* flight, its lofiPath is the output of a finished transformation that ran
\* with the effects the track now stores. (Stated for tracks all of whose
\* transformations succeeded and that no DELETE request is working on.)
Settled(id) ==
  /\ tracks[id].status = "completed"
  /\ \A t \in DOMAIN tasks : tasks[t].trackId = id => tasks[t].pc = "done"
  /\ \A d \in deletes : d.id # id
C20_ResultMatchesEffects ==
  \A id \in DOMAIN tracks :
    Settled(id) =>
      \E t \in DOMAIN tasks :
        /\ tasks[t].trackId = id /\ tasks[t].pc = "done"
        /\ tasks[t].outputPath = tracks[id].lofiPath
        /\ tasks[t].effects = tracks[id].effects

\* C21: POST /api/tracks/effects answers 400 or 404 to every request with an
\* effect value outside [0, 100] or an unknown track id; a step that gives
\* such an answer changes neither the store nor the disk and starts no
\* transformation; and the route starts a transformation only with effects
\* inside [0, 100] for a track that is in the store.
C21_RejectedRequestChangesNothing ==
  /\ [](\A id \in 1..currentTrackId, e \in RequestEffects :
          (\/ \E n \in EffectNames : e[n] < 0 \/ e[n] > 100
           \/ id \notin DOMAIN tracks)
          => EffectsResponse(tracks, id, e) \in {400, 404})
  /\ [][/\ (reply' # reply /\ reply' \in {400, 404})
           => (tracks' = tracks /\ tasks' = tasks /\ files' = files)
        /\ (Len(tasks') = Len(tasks) + 1 /\ currentTrackId' = currentTrackId)
           => /\ reply' = 200
              /\ tasks'[Len(tasks')].trackId \in DOMAIN tracks
              /\ \A n \in EffectNames :
                   /\ tasks'[Len(tasks')].effects[n] >= 0
                   /\ tasks'[Len(tasks')].effects[n] <= 100]_vars

C21_Witness ==
  /\ reply = 400
  /\ \E id \in DOMAIN tracks :
       /\ tracks[id].effects = DefaultEffects
       /\ tracks[id].status = "completed"
  /\ Len(tasks) = 1

\* C22: updateTrackEffects on an existing track stores the given effects as
\* a whole and status 'processing', and leaves the track's id, originalPath,
\* lofiPath, fileSize, duration and createdAt, and every other track, as they
\* were: for every store the server reaches, and in every step of the effects
\* route that starts a transformation.
C22_EffectsUpdateKeepsRest ==
  /\ [](\A id \in DOMAIN tracks, e \in RequestEffects :
          LET updated == updateTrackEffects(tracks, id, e)
          IN  /\ DOMAIN updated = DOMAIN tracks
              /\ updated[id] = [tracks[id] EXCEPT !.effects = e, !.status = "processing"]
              /\ \A j \in DOMAIN tracks \ {id} : updated[j] = tracks[j])
  /\ [][(Len(tasks') = Len(tasks) + 1 /\ currentTrackId' = currentTrackId) =>
          LET id == tasks'[Len(tasks')].trackId
              e == tasks'[Len(tasks')].effects
          IN  /\ reply' = 200
              /\ DOMAIN tracks' = DOMAIN tracks
              /\ tracks'[id].effects = e
              /\ tracks'[id].status = "processing"
              /\ \A f \in {"id", "originalPath", "lofiPath", "fileSize", "duration", "createdAt"} :
                   tracks'[id][f] = tracks[id][f]
              /\ \A j \in DOMAIN tracks \ {id} : tracks'[j] = tracks[j]]_vars

C22_Witness ==
  \E id \in DOMAIN tracks :
    /\ tracks[id].effects = Uniform(0)
    /\ tracks[id].status = "processing"
    /\ tracks[id].lofiPath # NoPath
    /\ reply = 200

\* C23: in every reachable state a track whose status is 'completed' has a
\* lofiPath that is not null.
C23_CompletedHasLofiPath ==
  \A id \in DOMAIN tracks :
    tracks[id].status = "completed" => tracks[id].lofiPath # NoPath

C23_Witness ==
  \E id \in DOMAIN tracks, t \in DOMAIN tasks :
    /\ tracks[id].status = "completed"
    /\ tasks[t].pc = "done"
    /\ tasks[t].trackId = id
    /\ tracks[id].lofiPath = tasks[t].outputPath

\* C24: a track that has been deleted never comes back: the ids in the store
\* only grow by the id createTrack hands out next, which was never used, so a
\* transformation finishing after the delete does not re-insert the track;
\* updateTrackStatus, updateTrackLofiPath and updateTrackEffects on an id that
\* is not in the store return undefined and leave the store as it is.
C24_DeletedStaysDeleted ==
  /\ [][/\ DOMAIN tracks' \subseteq DOMAIN tracks \cup {currentTrackId}
        /\ currentTrackId' >= currentTrackId
        /\ currentTrackId \in DOMAIN tracks' => currentTrackId' > currentTrackId
        /\ \A id \in DOMAIN tracks : id < currentTrackId]_vars
  /\ [](\A id \in (1..currentTrackId) \ DOMAIN tracks :
          /\ \A st \in {"processing", "completed", "error"} :
               /\ updateTrackStatus(tracks, id, st) = tracks
               /\ getTrack(updateTrackStatus(tracks, id, st), id) = undefined
          /\ \A t \in DOMAIN tasks :
               /\ updateTrackLofiPath(tracks, id, tasks[t].outputPath) = tracks
               /\ getTrack(updateTrackLofiPath(tracks, id, tasks[t].outputPath), id) = undefined
          /\ \A e \in RequestEffects :
               /\ updateTrackEffects(tracks, id, e) = tracks
               /\ getTrack(updateTrackEffects(tracks, id, e), id) = undefined)

C24_Witness ==
  \E t, u \in DOMAIN tasks :
    /\ tasks[t].trackId \notin DOMAIN tracks
    /\ tasks[t].trackId < currentTrackId
    /\ tasks[t].pc = "done"
    /\ tasks[u].trackId = tasks[t].trackId
    /\ tasks[u].pc = "failed"
    /\ \A d \in deletes : d.id # tasks[t].trackId

\* C25: once a track has been deleted and every transformation started for
\* it has finished, no lo-fi output produced for that track is left on the
\* disk.
C25_NoOutputLeftAfterDelete ==
  \A id \in (1..(currentTrackId - 1)) \ DOMAIN tracks :
    (/\ \A d \in deletes : d.id # id
     /\ \A t \in DOMAIN tasks :
          tasks[t].trackId = id => tasks[t].pc \in {"done", "failed"})
    => \A t \in DOMAIN tasks :
         tasks[t].trackId = id => ~Exists(files, tasks[t].outputPath)

\* C26: with every transformation terminating, a track that is 'uploading' or
\* 'processing' is later deleted or 'completed' or 'error'; and whenever no
\* transformation of a stored track is in flight, the track's status is
\* 'completed' or 'error'.
C26_TracksReachTerminalStatus ==
  /\ [](\A id \in DOMAIN tracks :
          (\A t \in DOMAIN tasks :
             tasks[t].trackId = id => tasks[t].pc \in {"done", "failed"})
          => tracks[id].status \in {"completed", "error"})
  /\ \A id \in 1..MaxTracks :
       (id \in DOMAIN tracks /\ tracks[id].status \in {"uploading", "processing"})
       ~> (id \notin DOMAIN tracks \/ tracks[id].status \in {"completed", "error"})

C26_Witness ==
  \E id \in DOMAIN tracks :
    /\ tracks[id].status = "error"
    /\ Cardinality({t \in DOMAIN tasks : tasks[t].trackId = id /\ tasks[t].pc = "failed"}) = 1
    /\ Cardinality({t \in DOMAIN tasks : tasks[t].trackId = id /\ tasks[t].pc = "done"}) = 1

\* C27: track ids are unique and never reused: every id in the store or held
\* by a transformation is below the counter, a track is stored under its own
\* id, every new track gets the counter's value, which is above every id
\* handed out before (deleted ones too), and the counter then moves up;
\* createTrack stores the track with status 'uploading' and lofiPath null.
C27_IdsNeverReused ==
  /\ [](/\ \A id \in DOMAIN tracks : id < currentTrackId /\ tracks[id].id = id
        /\ \A t \in DOMAIN tasks : tasks[t].trackId < currentTrackId
        /\ \A f \in UploadFiles :
             LET created == createTrack(tracks, currentTrackId,
                              [originalPath |-> UploadPath(nanoCount + 1, f.ext),
                               fileSize |-> f.size, duration |-> 0,
                               effects |-> DefaultEffects])
             IN  /\ DOMAIN created = DOMAIN tracks \cup {currentTrackId}
                 /\ created[currentTrackId].id = currentTrackId
                 /\ created[currentTrackId].status = "uploading"
                 /\ created[currentTrackId].lofiPath = NoPath
                 /\ \A j \in DOMAIN tracks : created[j] = tracks[j])
  /\ [][/\ currentTrackId' >= currentTrackId
        /\ DOMAIN tracks' \ DOMAIN tracks # {}
           => /\ DOMAIN tracks' \ DOMAIN tracks = {currentTrackId}
              /\ currentTrackId' > currentTrackId
              /\ tracks'[currentTrackId].lofiPath = NoPath]_vars

C27_Witness ==
  /\ currentTrackId = 3
  /\ 1 \notin DOMAIN tracks
  /\ 2 \in DOMAIN tracks
  /\ \E t \in DOMAIN tasks : tasks[t].trackId = 1
  /\ tracks[2].id = 2

\* C28: in the client's audio registry at most one registered instance has
\* playing = TRUE at any time; togglePlay(id) on an unregistered id returns
\* false and changes no instance; on a registered id it returns the flipped
\* flag, and when it starts playback no other instance is left playing.
C28_AtMostOnePlaying ==
  /\ [](Cardinality({i \in DOMAIN audioInstances : audioInstances[i].playing}) <= 1)
  /\ [][(audioReturn'.op = "togglePlay"
         /\ <<audioInstances, audioReturn>>' # <<audioInstances, audioReturn>>)
        => LET id == audioReturn'.id
           IN  IF id \notin DOMAIN audioInstances
               THEN audioReturn'.playing = FALSE /\ audioInstances' = audioInstances
               ELSE /\ audioReturn'.playing = ~audioInstances[id].playing
                    /\ audioInstances'[id].playing = audioReturn'.playing
                    /\ DOMAIN audioInstances' = DOMAIN audioInstances
                    /\ audioReturn'.playing
                       => \A j \in DOMAIN audioInstances' \ {id} :
                            ~audioInstances'[j].playing]_vars

C28_Witness ==
  /\ audioReturn.op = "togglePlay"
  /\ audioReturn.playing
  /\ DOMAIN audioInstances = AudioIds
  /\ audioInstances[audioReturn.id].playing
  /\ howlCount = MaxHowls

\* C29: when getAudioInstance(id, src) has returned, the instance registered
\* under id is the one returned and its source is src.
C29_InstancePlaysRequestedSrc ==
  audioReturn.op = "getAudioInstance"
  => /\ audioReturn.id \in DOMAIN audioInstances
     /\ audioInstances[audioReturn.id].howl = audioReturn.howl
     /\ audioInstances[audioReturn.id].src = audioReturn.src

====
